---- MODULE Spec2Model ----
(***************************************************************************)
(* Waitlist queue and open-house lifecycle of the OpenHouse app.           *)
(*                                                                         *)
(* The store is the Postgres schema of supabase-schema.sql: the tables     *)
(* open_house_events and waitlist_entries, the unique index on             *)
(* (event_id, position), the AFTER DELETE trigger reorder_on_delete and    *)
(* the function reorder_waitlist_entry.  The clients are the services      *)
(* waitlistService / eventService, the agent's EventDashboardScreen and    *)
(* AgentHomeScreen and the tenant's ScanQRScreen.                          *)
(* Every await of a service function is one round trip to the store and    *)
(* one step of the model; a Postgres statement (with the triggers it       *)
(* fires) or a Postgres function call is one transaction and one step.     *)
(***************************************************************************)
EXTENDS Integers, Sequences, FiniteSets, TLC

\* ------------------------------------------------------------------ bounds
MaxEntries == 3
MaxTime == 3
MaxEvents == 2
MaxIdLen == 3

Sessions == {"s1", "s2"}
\* the session of the agent where a specification has one agent only
Agents == {"s1"}
\* a device without an account: its user is a guest
Guests == {"s3"}
Devices == Sessions \cup Guests
EventIds == 1..MaxEvents
EntryIds == 1..MaxEntries
\* an id that is in no table (a QR code of a deleted or foreign event)
UnknownId == 0
\* SQL NULL of a timestamp column
NULL == 0

VARIABLES
    now,                \* wall clock (new Date().toISOString())
    open_house_events,  \* table public.open_house_events
    waitlist_entries,   \* table public.waitlist_entries
    nextId,             \* uuid_generate_v4(): next unused entry id
    proc,               \* per session: the service call in flight
    waitlist,           \* per session: the dashboard's useState waitlist
    scheduledEvents,    \* AgentHomeScreen: useState scheduledEvents (event ids)
    activeEvents,       \* AgentHomeScreen: useState activeEvents (event ids)
    inflight,           \* requests sent whose answer has not been delivered
    scanner,            \* ScanQRScreen: the code in front of the camera, the scan
    channel,            \* per session: changes its realtime channel has delivered
    last                \* outcome of the call that completed last

vars ==
    <<now, open_house_events, waitlist_entries, nextId, proc, waitlist,
      scheduledEvents, activeEvents, inflight, scanner, channel, last>>

\* ------------------------------------------------------------ table rows
\* text is a sequence of characters; the empty text stands for SQL NULL
Digits == <<"0", "1", "2", "3", "4", "5", "6", "7", "8", "9">>

\* the text of the id of event e
IdText(e) == <<Digits[e + 1]>>

Prefix ==
    <<"o", "p", "e", "n", "h", "o", "u", "s", "e", ":", "/", "/",
      "j", "o", "i", "n", "/">>

\* `openhouse://join/${data.id}`
qrData(id) == Prefix \o id

\* the characters of an id and the ids of at most MaxIdLen characters
IdChars == {"a", "f", "4", "-"}
IdTexts == UNION {[1..n -> IdChars] : n \in 1..MaxIdLen}

\* ScanQRScreen before a code is in sight (the null match is the empty text)
NoScan == [id |-> <<>>, data |-> <<>>, scanned |-> FALSE, eventId |-> <<>>]

NoEvent ==
    [live |-> FALSE, status |-> "", start_time |-> 0, end_time |-> 0,
     qr_code |-> <<>>]

NoEntry ==
    [live |-> FALSE, event_id |-> 0, user_id |-> "", guest_name |-> "",
     position |-> 0, status |-> "",
     started_tour_at |-> NULL, completed_at |-> NULL, expressed_interest |-> FALSE]

Idle ==
    [pc |-> "idle", e |-> 0, n |-> 0, id |-> 0, old |-> 0, todo |-> <<>>, b |-> FALSE]

LiveIds(tbl) == {i \in EntryIds : tbl[i].live}

EventRows(tbl, e) == {i \in LiveIds(tbl) : tbl[i].event_id = e}

Positions(tbl, e) == {tbl[i].position : i \in EventRows(tbl, e)}

Max(S) == CHOOSE x \in S : \A y \in S : y <= x

\* all orders in which a statement can visit the rows of S
Perms(S) ==
    {f \in [1..Cardinality(S) -> S] : \A i, j \in 1..Cardinality(S) : f[i] = f[j] => i = j}

\* a table without the unique index on (event_id, position)
UniqueViolation_NoIndex(tbl, id, e, p) == FALSE

\* idx_waitlist_unique_position: would row id at (e, p) collide with a live row
UniqueViolation(tbl, id, e, p) ==
    \E j \in LiveIds(tbl) : j # id /\ tbl[j].event_id = e /\ tbl[j].position = p

\* UPDATE ... SET position = position + delta over the rows of seq, visited in
\* that order; the unique index is checked row by row as each row is written
RECURSIVE ShiftPositions(_, _, _)
ShiftPositions(tbl, seq, delta) ==
    IF Len(seq) = 0 THEN [ok |-> TRUE, tbl |-> tbl]
    ELSE LET id == seq[1]
             p == tbl[id].position + delta
         IN  IF UniqueViolation(tbl, id, tbl[id].event_id, p)
             THEN [ok |-> FALSE, tbl |-> tbl]
             ELSE ShiftPositions([tbl EXCEPT ![id].position = p],
                                 SubSeq(seq, 2, Len(seq)), delta)

\* rows of event e in ascending position: ORDER BY position
RECURSIVE OrderByPosition(_, _)
OrderByPosition(tbl, S) ==
    IF S = {} THEN <<>>
    ELSE LET m == CHOOSE i \in S : \A j \in S : tbl[i].position <= tbl[j].position
         IN  <<m>> \o OrderByPosition(tbl, S \ {m})

\* ------------------------------------------------------------------- Init
Init ==
    /\ now = 1
    /\ open_house_events =
        [e \in EventIds |->
            [live |-> TRUE,
             status |-> IF e <= now THEN "active" ELSE "scheduled",
             start_time |-> e, end_time |-> e + 1,
             qr_code |-> qrData(IdText(e))]]
    /\ waitlist_entries = [i \in EntryIds |-> NoEntry]
    /\ nextId = 1
    /\ proc = [s \in Devices |-> Idle]
    /\ waitlist = [s \in Sessions |-> <<>>]
    /\ scheduledEvents = {}
    /\ activeEvents = {}
    /\ inflight = {}
    /\ scanner = NoScan
    /\ channel = [s \in Sessions |-> 0]
    /\ last = [op |-> "none", res |-> "", id |-> 0, n |-> 0, by |-> ""]

\* a completed call: its name and outcome (and, for a reorder, its arguments;
\* for a delete, the event and the position of the row it named)
DoneWith(op, res, id, n) ==
    last' = [op |-> op, res |-> res, id |-> id, n |-> n, by |-> ""]

\* a completed status request: the entry it named and the session that sent it
DoneBy(op, res, id, s) ==
    last' = [op |-> op, res |-> res, id |-> id, n |-> 0, by |-> s]

Done(op, res) == DoneWith(op, res, 0, 0)

\* ---------------------------------------------------------------- clock
\* setTimeout(..., 30000) of getActiveEvent, in ticks of the clock
QueryTimeout == 1

\* a timer of the runtime whose delay has passed
TimerDue(q) == q.kind = "timer" /\ now >= q.t + QueryTimeout

\* the clock moves on; the runtime runs a timer callback when its delay has
\* passed, so the clock does not pass a due timer
Tick ==
    /\ now < MaxTime
    /\ \A q \in inflight : ~TimerDue(q)
    /\ now' = now + 1
    /\ UNCHANGED <<open_house_events, waitlist_entries, nextId, proc, waitlist,
                   last, scheduledEvents, activeEvents, inflight, scanner,
                   channel>>

\* useAuth().user of each device: one account per session, and a guest
\* (no account, identified by name and phone) on the device without one
user ==
    [s \in Devices |->
        [id |-> s, name |-> s,
         role |-> IF s \in Guests THEN "guest"
                  ELSE IF s \in Agents THEN "agent" ELSE "tenant"]]

\* auth.uid() of the requests of session s ("" for the anonymous key)
auth_uid(s) == IF user[s].role = "guest" THEN "" ELSE user[s].id

\* open_house_events.agent_id: the agent's account owns the first event
agent_id == [e \in EventIds |-> IF e = 1 THEN "s1" ELSE "a2"]

\* ------------------------------------------------- waitlistService (store)
\* select position ... order by position desc limit 1, then "+ 1 or 1"
NextPosition(tbl, e) ==
    IF EventRows(tbl, e) = {} THEN 1 ELSE Max(Positions(tbl, e)) + 1

\* the validation of joinWaitlist on the event row it fetched
JoinCheck(ev, t) ==
    IF ~ev.live THEN "Event not found"
    ELSE IF ev.status # "active" THEN "EventNotActive"
    ELSE IF t < ev.start_time THEN "EventNotStarted"
    ELSE IF t > ev.end_time THEN "EventEnded"
    ELSE "ok"

EventRow(e) == IF e \in EventIds THEN open_house_events[e] ELSE NoEvent

\* joins that hold an entry id in reserve (keeps nextId within EntryIds)
Joining == {s \in Sessions : proc[s].pc \in {"join_max", "join_insert"}}

CanStartJoin == nextId + Cardinality(Joining) <= MaxEntries

\* INSERT INTO waitlist_entries: foreign key on event_id, then the unique index
InsertEntry(tbl, id, e, u, p) ==
    IF ~EventRow(e).live THEN [res |-> "fk_violation", tbl |-> tbl]
    ELSE IF UniqueViolation(tbl, id, e, p) THEN [res |-> "unique_violation", tbl |-> tbl]
    ELSE [res |-> "joined",
          tbl |-> [tbl EXCEPT ![id] =
                     [live |-> TRUE, event_id |-> e,
                      user_id |-> IF u.role = "guest" THEN "" ELSE u.id,
                      guest_name |-> IF u.role = "guest" THEN u.name ELSE "",
                      position |-> p, status |-> "waiting",
                      started_tour_at |-> NULL, completed_at |-> NULL,
                      expressed_interest |-> FALSE]]]

\* joinWaitlist, first round trip: fetch the event, read the clock, validate
joinWaitlist(s, e) ==
    /\ proc[s].pc = "idle"
    /\ CanStartJoin
    /\ LET c == JoinCheck(EventRow(e), now)
       IN  IF c = "ok"
           THEN /\ proc' = [proc EXCEPT ![s] = [Idle EXCEPT !.pc = "join_max", !.e = e]]
                /\ UNCHANGED last
           ELSE /\ DoneWith("joinWaitlist", c, e, 0)
                /\ UNCHANGED proc
    /\ UNCHANGED <<now, open_house_events, waitlist_entries, nextId, waitlist,
                   scheduledEvents, activeEvents, inflight, scanner, channel>>

\* joinWaitlist, second round trip: read the current max position
joinReadMax(s) ==
    /\ proc[s].pc = "join_max"
    /\ proc' = [proc EXCEPT ![s].pc = "join_insert",
                            ![s].n = NextPosition(waitlist_entries, proc[s].e)]
    /\ UNCHANGED <<now, open_house_events, waitlist_entries, nextId, waitlist,
                   last,
                 scheduledEvents, activeEvents, inflight, scanner, channel>>

\* joinWaitlist, third round trip: insert the entry at nextPosition
joinInsert(s) ==
    /\ proc[s].pc = "join_insert"
    /\ LET r == InsertEntry(waitlist_entries, nextId, proc[s].e, user[s], proc[s].n)
       IN  /\ waitlist_entries' = r.tbl
           /\ nextId' = IF r.res = "joined" THEN nextId + 1 ELSE nextId
           /\ Done("joinWaitlist", r.res)
    /\ proc' = [proc EXCEPT ![s] = Idle]
    /\ UNCHANGED <<now, open_house_events, waitlist, scheduledEvents,
                   activeEvents, inflight, scanner, channel>>

\* getWaitlist: the event's rows in ascending position, as (id, status)
getWaitlist(tbl, e) ==
    LET ord == OrderByPosition(tbl, EventRows(tbl, e))
    IN  [k \in 1..Len(ord) |-> [id |-> ord[k], status |-> tbl[ord[k]].status]]

\* the row written by updateEntryStatus(entryId, status) at time t
UpdateRow_ResetsInterest(row, status, t) ==
    [row EXCEPT !.status = status, !.expressed_interest = FALSE]

UpdateRow(row, status, t) ==
    [row EXCEPT !.status = status,
                !.started_tour_at = IF status = "touring" THEN t ELSE @,
                !.completed_at = IF status = "completed" THEN t ELSE @]

\* updateEntryStatus: update ... eq('id', entryId).select().single()
StatusUpdate(op, s, id, status) ==
    IF id \in LiveIds(waitlist_entries)
    THEN /\ waitlist_entries' =
              [waitlist_entries EXCEPT ![id] = UpdateRow(@, status, now)]
         /\ DoneBy(op, "ok", id, s)
    ELSE /\ UNCHANGED waitlist_entries
         /\ DoneBy(op, "PGRST116", id, s)

updateEntryStatus(s, id, status) ==
    /\ proc[s].pc = "idle"
    /\ StatusUpdate("updateEntryStatus", s, id, status)
    /\ UNCHANGED <<now, open_house_events, nextId, proc, waitlist,
                   scheduledEvents,
                   activeEvents, inflight, scanner, channel>>

\* --------------------------------------------- waitlistService (interest)
\* a completed interest request: the entry, the flag asked for and the caller
DoneInterest(op, res, id, b, s) ==
    last' = [op |-> op, res |-> res, id |-> id, n |-> IF b THEN 1 ELSE 0, by |-> s]

\* row level security of waitlist_entries FOR UPDATE: "Agents can update
\* waitlist for their events" and "Users can update own waitlist entry"
RlsAllowsUpdate(s, row) ==
    /\ auth_uid(s) # ""
    /\ \/ auth_uid(s) = agent_id[row.event_id]
       \/ auth_uid(s) = row.user_id

\* .update({expressed_interest: b}).eq('id', id).select().single() as session
\* s: a row the policies hide is not updated and single() finds no row
DirectInterest(op, s, id, b) ==
    IF id \in LiveIds(waitlist_entries) /\ RlsAllowsUpdate(s, waitlist_entries[id])
    THEN /\ waitlist_entries' =
              [waitlist_entries EXCEPT ![id].expressed_interest = b]
         /\ DoneInterest(op, "ok", id, b, s)
    ELSE /\ UNCHANGED waitlist_entries
         /\ DoneInterest(op, "PGRST116", id, b, s)

expressInterest(s, id) ==
    /\ proc[s].pc = "idle"
    /\ DirectInterest("expressInterest", s, id, TRUE)
    /\ UNCHANGED <<now, open_house_events, nextId, proc, waitlist,
                   scheduledEvents,
                   activeEvents, inflight, scanner, channel>>

\* the function update_guest_interest(p_entry_id, p_interested) of the store:
\* the path of the guests, which writes the flag of a guest's entry without
\* asking who calls and returns the row; any other entry is refused
update_guest_interest(tbl, p_entry_id, p_interested) ==
    IF p_entry_id \in LiveIds(tbl) /\ tbl[p_entry_id].user_id = ""
    THEN [res |-> "ok",
          tbl |-> [tbl EXCEPT ![p_entry_id].expressed_interest = p_interested]]
    ELSE [res |-> "refused", tbl |-> tbl]

\* toggleInterest, first round trip: rpc('update_guest_interest'), for every
\* entry; on any error of the rpc the direct update is tried next
toggleInterest(s, id, b) ==
    /\ proc[s].pc = "idle"
    /\ LET r == update_guest_interest(waitlist_entries, id, b)
       IN  IF r.res = "ok"
           THEN /\ waitlist_entries' = r.tbl
                /\ DoneInterest("toggleInterest", "ok", id, b, s)
                /\ UNCHANGED proc
           ELSE /\ proc' = [proc EXCEPT ![s] =
                                [Idle EXCEPT !.pc = "toggleDirect", !.id = id, !.b = b]]
                /\ UNCHANGED <<waitlist_entries, last>>
    /\ UNCHANGED <<now, open_house_events, nextId, waitlist, scheduledEvents,
                   activeEvents, inflight, scanner, channel>>

\* toggleInterest, second round trip: the direct update
toggleDirect(s) ==
    /\ proc[s].pc = "toggleDirect"
    /\ DirectInterest("toggleInterest", s, proc[s].id, proc[s].b)
    /\ proc' = [proc EXCEPT ![s] = Idle]
    /\ UNCHANGED <<now, open_house_events, nextId, waitlist, scheduledEvents,
                   activeEvents, inflight, scanner, channel>>

\* ---------------------------------------------------------- ScanQRScreen
\* the regular expression /openhouse:\/\/join\/(.+)/ : the places of data
\* where the literal stands and a character other than a line end follows
LineEnds == {"\n", "\r"}

MatchStarts(data) ==
    {i \in 1..Len(data) :
        /\ i + Len(Prefix) <= Len(data)
        /\ SubSeq(data, i, i + Len(Prefix) - 1) = Prefix
        /\ data[i + Len(Prefix)] \notin LineEnds}

Match_Lazy(data) ==
    IF MatchStarts(data) = {} THEN <<>>
    ELSE LET i == CHOOSE j \in MatchStarts(data) : \A k \in MatchStarts(data) : j <= k
         IN  <<data[i + Len(Prefix)]>>

\* data.match(...)[1]: the leftmost match, (.+) taking every character up
\* to the end of the line
Match(data) ==
    IF MatchStarts(data) = {} THEN <<>>
    ELSE LET i == CHOOSE j \in MatchStarts(data) : \A k \in MatchStarts(data) : j <= k
             from == i + Len(Prefix)
             to == CHOOSE j \in from..Len(data) :
                      /\ \A k \in from..j : data[k] \notin LineEnds
                      /\ j = Len(data) \/ data[j + 1] \in LineEnds
         IN  SubSeq(data, from, to)

\* EventDetails shows <QRCode value={event.qr_code}>: the code of the event
\* whose id is scanner.id comes in sight of the camera
showCode ==
    /\ scanner.data = <<>>
    /\ scanner' = [scanner EXCEPT !.data = qrData(scanner.id)]
    /\ UNCHANGED <<now, open_house_events, waitlist_entries, nextId, proc,
                   waitlist, scheduledEvents, activeEvents, inflight, last,
                   channel>>

\* a code that is no join token (the bare id) comes in sight of the camera
showForeignCode ==
    /\ scanner.data = <<>>
    /\ scanner' = [scanner EXCEPT !.data = scanner.id]
    /\ UNCHANGED <<now, open_house_events, waitlist_entries, nextId, proc,
                   waitlist, scheduledEvents, activeEvents, inflight, last,
                   channel>>

\* handleBarCodeScanned({data}): no match -> alert, scanning again after 2 s;
\* a match -> joinWaitlist({eventId: match[1]})
handleBarCodeScanned ==
    /\ ~scanner.scanned
    /\ scanner.data # <<>>
    /\ LET match == Match(scanner.data)
       IN  /\ scanner' = [scanner EXCEPT !.scanned = TRUE, !.eventId = match]
           /\ last' = [op |-> "handleBarCodeScanned",
                       res |-> IF match = <<>> THEN "Invalid QR Code" ELSE "join",
                       id |-> 0, n |-> Len(match), by |-> ""]
    /\ UNCHANGED <<now, open_house_events, waitlist_entries, nextId, proc,
                   waitlist, scheduledEvents, activeEvents, inflight, channel>>

\* setTimeout(() => setScanned(false), 2000) after a rejected scan, or the
\* screen opened again: the next code comes in sight
scanAgain ==
    /\ scanner.scanned
    /\ \E id \in IdTexts : scanner' = [NoScan EXCEPT !.id = id]
    /\ UNCHANGED <<now, open_house_events, waitlist_entries, nextId, proc,
                   waitlist, scheduledEvents, activeEvents, inflight, last,
                   channel>>

\* ------------------------------------------------- EventDashboardScreen
\* route.params.eventId of each open dashboard
eventId == [s \in Sessions |-> 1]

\* loadWaitlist: getWaitlist(eventId), then setWaitlist(data)
loadWaitlist(s) ==
    /\ proc[s].pc = "idle"
    /\ waitlist' = [waitlist EXCEPT ![s] = getWaitlist(waitlist_entries, eventId[s])]
    /\ UNCHANGED <<now, open_house_events, waitlist_entries, nextId, proc, last,
                   scheduledEvents, activeEvents, inflight, scanner, channel>>

\* data.filter((entry) => entry.status !== 'completed')
NotCompleted(entry) == entry.status # "completed"

ActiveQueue(data) == SelectSeq(data, NotCompleted)

\* the changes of waitlist_entries committed so far (inserts, where nothing
\* else writes the table)
Changes == nextId - 1

\* the realtime channel of the dashboard delivers the next change of the
\* table; the callback calls loadWaitlist, which sends getWaitlist(eventId)
\* and goes on awaiting it
notifyChange(s) ==
    /\ channel[s] < Changes
    /\ channel' = [channel EXCEPT ![s] = @ + 1]
    /\ inflight' = inflight \cup
          {[kind |-> "getWaitlist", by |-> s, t |-> channel[s] + 1,
            served |-> FALSE, data |-> <<>>]}
    /\ UNCHANGED <<now, open_house_events, waitlist_entries, nextId, proc,
                   waitlist, scheduledEvents, activeEvents, scanner, last>>

\* the store runs the select of the request q
serveWaitlist(q) ==
    /\ q \in inflight
    /\ q.kind = "getWaitlist"
    /\ ~q.served
    /\ inflight' = (inflight \ {q}) \cup
          {[q EXCEPT !.served = TRUE,
                     !.data = getWaitlist(waitlist_entries, eventId[q.by])]}
    /\ UNCHANGED <<now, open_house_events, waitlist_entries, nextId, proc,
                   waitlist, scheduledEvents, activeEvents, scanner, channel,
                   last>>

\* the response of q arrives: loadWaitlist resumes and calls setWaitlist
deliverWaitlist(q) ==
    /\ q \in inflight
    /\ q.kind = "getWaitlist"
    /\ q.served
    /\ inflight' = inflight \ {q}
    /\ waitlist' = [waitlist EXCEPT ![q.by] = ActiveQueue(q.data)]
    /\ UNCHANGED <<now, open_house_events, waitlist_entries, nextId, proc,
                   scheduledEvents, activeEvents, scanner, channel, last>>

\* waitlist.find((e) => e.status === 'waiting') on the dashboard's list
FirstWaiting(list) ==
    LET W == {k \in 1..Len(list) : list[k].status = "waiting"}
    IN  IF W = {} THEN 0 ELSE list[CHOOSE k \in W : \A j \in W : k <= j].id

handleCallNext(s) ==
    /\ proc[s].pc = "idle"
    /\ LET nextPerson == FirstWaiting(waitlist[s])
       IN  IF nextPerson = 0
           THEN /\ Done("handleCallNext", "QueueEmpty")
                /\ UNCHANGED waitlist_entries
           ELSE StatusUpdate("handleCallNext", s, nextPerson, "touring")
    /\ UNCHANGED <<now, open_house_events, nextId, proc, waitlist,
                   scheduledEvents,
                   activeEvents, inflight, scanner, channel>>

\* the Complete button is rendered only on items the list shows as touring
handleComplete(s, k) ==
    /\ proc[s].pc = "idle"
    /\ k \in 1..Len(waitlist[s])
    /\ waitlist[s][k].status = "touring"
    /\ StatusUpdate("handleComplete", s, waitlist[s][k].id, "completed")
    /\ UNCHANGED <<now, open_house_events, nextId, proc, waitlist,
                   scheduledEvents,
                   activeEvents, inflight, scanner, channel>>

\* ------------------------------------------------------ supabase-schema.sql
\* the post-update check of reorder_waitlist_entry:
\* position != ROW_NUMBER() OVER (ORDER BY position) for some row of the event
IntegrityCheckFails(tbl, e) ==
    LET ord == OrderByPosition(tbl, EventRows(tbl, e))
    IN  \E k \in 1..Len(ord) : tbl[ord[k]].position # k

\* the rows the shifting UPDATE of reorder_waitlist_entry selects
ShiftedRows(tbl, e, old, new) ==
    IF new < old
    THEN {i \in EventRows(tbl, e) : tbl[i].position >= new /\ tbl[i].position < old}
    ELSE {i \in EventRows(tbl, e) : tbl[i].position > old /\ tbl[i].position <= new}

\* the body of reorder_waitlist_entry after its early returns: the shifting
\* UPDATE (scan is the order in which it visits its rows), the UPDATE of the
\* target row, the integrity check.  Any exception leaves the table as it was.
ReorderMove(tbl, p_entry_id, p_new_position, scan) ==
    LET v_old_position == tbl[p_entry_id].position
        v_event_id == tbl[p_entry_id].event_id
        sh == ShiftPositions(tbl, scan,
                             IF p_new_position < v_old_position THEN 1 ELSE -1)
    IN  IF ~sh.ok THEN [res |-> "unique_violation", tbl |-> tbl]
        ELSE IF UniqueViolation(sh.tbl, p_entry_id, v_event_id, p_new_position)
        THEN [res |-> "unique_violation", tbl |-> tbl]
        ELSE
        LET moved == [sh.tbl EXCEPT ![p_entry_id].position = p_new_position]
        IN  IF IntegrityCheckFails(moved, v_event_id)
            THEN [res |-> "Position integrity check failed", tbl |-> tbl]
            ELSE [res |-> "ok", tbl |-> moved]

\* reorder_waitlist_entry without the return on v_old_position = p_new_position
reorder_waitlist_entry_NoEarlyReturn(tbl, p_entry_id, p_new_position, scan) ==
    IF p_entry_id \notin LiveIds(tbl) THEN [res |-> "Entry not found", tbl |-> tbl]
    ELSE ReorderMove(tbl, p_entry_id, p_new_position, scan)

\* reorder_waitlist_entry(p_entry_id, p_new_position) as one transaction
reorder_waitlist_entry(tbl, p_entry_id, p_new_position, scan) ==
    IF p_entry_id \notin LiveIds(tbl) THEN [res |-> "Entry not found", tbl |-> tbl]
    ELSE IF tbl[p_entry_id].position = p_new_position THEN [res |-> "ok", tbl |-> tbl]
    ELSE ReorderMove(tbl, p_entry_id, p_new_position, scan)

\* the scan orders of the shifting UPDATE for a call
ReorderScans(tbl, id, new) ==
    IF id \in LiveIds(tbl) /\ tbl[id].position # new
    THEN Perms(ShiftedRows(tbl, tbl[id].event_id, tbl[id].position, new))
    ELSE {<<>>}

\* waitlistService.reorderEntry: supabase.rpc('reorder_waitlist_entry', ...)
reorderEntry(s, id, new) ==
    /\ proc[s].pc = "idle"
    /\ \E scan \in ReorderScans(waitlist_entries, id, new) :
         LET r == reorder_waitlist_entry(waitlist_entries, id, new, scan)
         IN  /\ waitlist_entries' = r.tbl
             /\ DoneWith("reorderEntry", r.res, id, new)
    /\ UNCHANGED <<now, open_house_events, nextId, proc, waitlist,
                   scheduledEvents,
                   activeEvents, inflight, scanner, channel>>

\* the trigger's UPDATE without its status = 'waiting' condition
CompactedRows_AnyStatus(tbl, old) ==
    {i \in EventRows(tbl, old.event_id) : tbl[i].position > old.position}

\* trigger reorder_on_delete -> reorder_waitlist_positions(): the rows it updates
CompactedRows(tbl, old) ==
    {i \in EventRows(tbl, old.event_id) :
        tbl[i].position > old.position /\ tbl[i].status = "waiting"}

\* DELETE FROM waitlist_entries WHERE id = ..., with its AFTER DELETE trigger,
\* as one statement: a unique violation inside the trigger undoes the delete
DeleteRow(tbl, id, scan) ==
    LET removed == [tbl EXCEPT ![id] = NoEntry]
        sh == ShiftPositions(removed, scan, -1)
    IN  IF sh.ok THEN [res |-> "ok", tbl |-> sh.tbl]
        ELSE [res |-> "unique_violation", tbl |-> tbl]

DeleteEntry(id) ==
    /\ id \in LiveIds(waitlist_entries)
    /\ \E scan \in Perms(CompactedRows([waitlist_entries EXCEPT ![id] = NoEntry],
                                       waitlist_entries[id])) :
         LET r == DeleteRow(waitlist_entries, id, scan)
         IN  /\ waitlist_entries' = r.tbl
             /\ DoneWith("DeleteEntry", r.res, waitlist_entries[id].event_id,
                         waitlist_entries[id].position)
    /\ UNCHANGED <<now, open_house_events, nextId, proc, waitlist,
                   scheduledEvents,
                   activeEvents, inflight, scanner, channel>>

\* numbered_entries of repair_waitlist_positions: ROW_NUMBER() OVER (ORDER BY
\* position, joined_at) for the rows of the event.  The unique index makes
\* the positions of one event distinct, so joined_at never decides the order.
NumberedEntries(tbl, e) ==
    LET ord == OrderByPosition(tbl, EventRows(tbl, e))
    IN  [i \in EventRows(tbl, e) |-> CHOOSE k \in 1..Len(ord) : ord[k] = i]

\* UPDATE ... SET position = n.new_position over the rows of seq, visited in
\* that order; the unique index is checked as each row is written
RECURSIVE AssignPositions(_, _, _)
AssignPositions(tbl, seq, new_position) ==
    IF Len(seq) = 0 THEN [ok |-> TRUE, tbl |-> tbl]
    ELSE LET id == seq[1]
         IN  IF UniqueViolation(tbl, id, tbl[id].event_id, new_position[id])
             THEN [ok |-> FALSE, tbl |-> tbl]
             ELSE AssignPositions([tbl EXCEPT ![id].position = new_position[id]],
                                  SubSeq(seq, 2, Len(seq)), new_position)

\* repair_waitlist_positions(p_event_id) as one transaction: the rows with
\* w.position != n.new_position are rewritten in the order the UPDATE's plan
\* visits them; an exception leaves the table as it was
repair_waitlist_positions(p_event_id) ==
    /\ LET n == NumberedEntries(waitlist_entries, p_event_id)
           rows == {i \in EventRows(waitlist_entries, p_event_id) :
                       waitlist_entries[i].position # n[i]}
       IN  \E scan \in Perms(rows) :
              LET r == AssignPositions(waitlist_entries, scan, n)
              IN  /\ waitlist_entries' = IF r.ok THEN r.tbl ELSE waitlist_entries
                  /\ DoneWith("repair_waitlist_positions",
                              IF r.ok THEN "ok" ELSE "unique_violation", p_event_id, 0)
    /\ UNCHANGED <<now, open_house_events, nextId, proc, waitlist,
                   scheduledEvents, activeEvents, inflight, scanner, channel>>

\* ------------------------------------------------------------ eventService
\* deleteEvent: the row and, by ON DELETE CASCADE, all its waitlist entries
deleteEvent(e) ==
    /\ open_house_events[e].live
    /\ open_house_events' = [open_house_events EXCEPT ![e] = NoEvent]
    /\ waitlist_entries' =
         [i \in EntryIds |-> IF waitlist_entries[i].live /\ waitlist_entries[i].event_id = e
                             THEN NoEntry ELSE waitlist_entries[i]]
    /\ Done("deleteEvent", "ok")
    /\ UNCHANGED <<now, nextId, proc, waitlist, scheduledEvents, activeEvents,
                   inflight, scanner, channel>>

\* the status checkAndTransitionEventStatus decides to write for the event it read
TransitionOf(ev, t) ==
    IF ev.status = "scheduled" /\ ev.start_time <= t THEN "active"
    ELSE IF ev.status = "active" /\ ev.end_time <= t THEN "completed"
    ELSE "none"

\* checkAndTransitionEventStatus, first round trip: getEvent, then decide
checkAndTransitionEventStatus(s, e) ==
    /\ proc[s].pc = "idle"
    /\ IF ~EventRow(e).live
       THEN /\ Done("checkAndTransitionEventStatus", "Event not found")
            /\ UNCHANGED proc
       ELSE IF TransitionOf(EventRow(e), now) = "none"
       THEN /\ Done("checkAndTransitionEventStatus", EventRow(e).status)
            /\ UNCHANGED proc
       ELSE /\ proc' = [proc EXCEPT ![s] =
                          [Idle EXCEPT !.pc = IF TransitionOf(EventRow(e), now) = "active"
                                             THEN "to_active" ELSE "to_completed",
                                       !.e = e]]
            /\ UNCHANGED last
    /\ UNCHANGED <<now, open_house_events, waitlist_entries, nextId, waitlist,
                   scheduledEvents, activeEvents, inflight, scanner, channel>>

\* second round trip: updateEventStatus(eventId, status), an unconditional update
updateEventStatus(s) ==
    /\ proc[s].pc \in {"to_active", "to_completed"}
    /\ LET e == proc[s].e
           status == IF proc[s].pc = "to_active" THEN "active" ELSE "completed"
       IN  IF open_house_events[e].live
           THEN /\ open_house_events' = [open_house_events EXCEPT ![e].status = status]
                /\ Done("checkAndTransitionEventStatus", status)
           ELSE /\ UNCHANGED open_house_events
                /\ Done("checkAndTransitionEventStatus", "PGRST116")
    /\ proc' = [proc EXCEPT ![s] = Idle]
    /\ UNCHANGED <<now, waitlist_entries, nextId, waitlist, scheduledEvents,
                   activeEvents, inflight, scanner, channel>>

\* getEvent: select ... eq('id', eventId).single(); the stored row as it is
\* (no row: null)
getEvent(s, e) ==
    /\ proc[s].pc = "idle"
    /\ DoneWith("getEvent", IF EventRow(e).live THEN EventRow(e).status ELSE "null", e, 0)
    /\ UNCHANGED <<now, open_house_events, waitlist_entries, nextId, proc,
                   waitlist,
                 scheduledEvents, activeEvents, inflight, scanner, channel>>

\* getAgentEvents: the agent's events, order('start_time', descending)
RECURSIVE OrderByStartDesc(_, _)
OrderByStartDesc(tbl, S) ==
    IF S = {} THEN <<>>
    ELSE LET m == CHOOSE i \in S : \A j \in S : tbl[i].start_time >= tbl[j].start_time
         IN  <<m>> \o OrderByStartDesc(tbl, S \ {m})

getAgentEvents(tbl) == OrderByStartDesc(tbl, {e \in EventIds : tbl[e].live})

\* the updateEventStatus calls the loop of checkAndTransitionAllAgentEvents
\* will make for the list it fetched, decided against the clock read at t
RECURSIVE PendingTransitions(_, _, _)
PendingTransitions(tbl, events, t) ==
    IF Len(events) = 0 THEN <<>>
    ELSE LET e == events[1]
             rest == PendingTransitions(tbl, SubSeq(events, 2, Len(events)), t)
         IN  IF TransitionOf(tbl[e], t) = "none" THEN rest
             ELSE <<[e |-> e, status |-> TransitionOf(tbl[e], t)]>> \o rest

\* the final query and partition of getEventsByAgent
ScheduledOf(tbl, t) ==
    {e \in EventIds : tbl[e].live /\ tbl[e].status = "scheduled" /\ tbl[e].start_time > t}

ActiveOf(tbl) == {e \in EventIds : tbl[e].live /\ tbl[e].status = "active"}

\* createEvent, first round trip: insert the row, status from the clock; the
\* store assigns the id; an error of the store ends the call
createEvent(s, startTime, ok) ==
    /\ proc[s].pc = "idle"
    /\ \E e \in EventIds :
          /\ ~open_house_events[e].live
          /\ \A d \in EventIds : d < e => open_house_events[d].live
          /\ IF ok
             THEN /\ open_house_events' =
                       [open_house_events EXCEPT ![e] =
                          [live |-> TRUE,
                           status |-> IF startTime > now THEN "scheduled" ELSE "active",
                           start_time |-> startTime, end_time |-> startTime + 1,
                           qr_code |-> <<>>]]
                  /\ proc' = [proc EXCEPT ![s] =
                                 [Idle EXCEPT !.pc = "create_update", !.e = e]]
                  /\ UNCHANGED last
             ELSE /\ DoneBy("createEvent", "error", 0, s)
                  /\ UNCHANGED <<open_house_events, proc>>
    /\ UNCHANGED <<now, waitlist_entries, nextId, waitlist, scheduledEvents,
                   activeEvents, inflight, scanner, channel>>

\* createEvent, second round trip: update({ qr_code: qrData }).eq('id');
\* an error of the store ends the call, the row stays as inserted
createEventUpdate(s, ok) ==
    /\ proc[s].pc = "create_update"
    /\ IF ok /\ open_house_events[proc[s].e].live
       THEN /\ open_house_events' =
                 [open_house_events EXCEPT
                    ![proc[s].e].qr_code = qrData(IdText(proc[s].e))]
            /\ DoneBy("createEvent", "ok", proc[s].e, s)
       ELSE /\ UNCHANGED open_house_events
            /\ DoneBy("createEvent", "error", proc[s].e, s)
    /\ proc' = [proc EXCEPT ![s] = Idle]
    /\ UNCHANGED <<now, waitlist_entries, nextId, waitlist, scheduledEvents,
                   activeEvents, inflight, scanner, channel>>

\* update(updates): the columns named by updates are overwritten
Merge(row, updates) ==
    [f \in DOMAIN row |-> IF f \in DOMAIN updates THEN updates[f] ELSE row[f]]

\* updateEvent(eventId, updates)
updateEvent(s, e, updates) ==
    /\ proc[s].pc = "idle"
    /\ IF open_house_events[e].live
       THEN /\ open_house_events' =
                 [open_house_events EXCEPT ![e] = Merge(@, updates)]
            /\ DoneBy("updateEvent", "ok", e, s)
       ELSE /\ UNCHANGED open_house_events
            /\ DoneBy("updateEvent", "PGRST116", e, s)
    /\ UNCHANGED <<now, waitlist_entries, nextId, proc, waitlist, scheduledEvents,
                   activeEvents, inflight, scanner, channel>>

\* what the store can answer to the select of getActiveEvent: rows, the
\* no-rows error, a timeout reported by the store, any other error
StoreAnswers ==
    <<[error |-> FALSE, code |-> "", message |-> ""],
      [error |-> TRUE, code |-> "PGRST116", message |-> "no rows returned"],
      [error |-> TRUE, code |-> "57014",
       message |-> "canceling statement due to statement timeout"],
      [error |-> TRUE, code |-> "42501", message |-> "permission denied"]>>

\* reject(new Error('Query timeout after 30 seconds'))
TimeoutError ==
    [error |-> TRUE, code |-> "", message |-> "Query timeout after 30 seconds"]

\* error?.message?.includes('timeout')
IncludesTimeout(message) ==
    message \in {"Query timeout after 30 seconds",
                 "canceling statement due to statement timeout"}

\* what getActiveEvent hands to its caller once the race is settled by answer
\* a (rows: the active events the select found)
ActiveResult(a, rows) ==
    IF ~a.error THEN (IF rows = {} THEN "[]" ELSE "events")
    ELSE IF a.code = "PGRST116" THEN "[]"
    ELSE IF IncludesTimeout(a.message) THEN "[]"
    ELSE "throw"

\* a completed getActiveEvent: the result, the answer that settled the race
\* (its index in StoreAnswers, 0 for the timer) and the time the call took
DoneActive(s, res, k) ==
    last' = [op |-> "getActiveEvent", res |-> res, id |-> k,
             n |-> now - proc[s].n, by |-> s]

ArmedTimers_None(s, t) == {}

\* the timeout promise of a call made by s at time t
ArmedTimers(s, t) == {[kind |-> "timer", by |-> s, t |-> t]}

\* getActiveEvent: send the select, arm the timer, await the race
getActiveEvent(s) ==
    /\ proc[s].pc = "idle"
    /\ \A q \in inflight : ~(q.by = s /\ q.t = now)
    /\ proc' = [proc EXCEPT ![s] = [Idle EXCEPT !.pc = "race", !.n = now]]
    /\ inflight' = inflight \cup {[kind |-> "select", by |-> s, t |-> now]}
                             \cup ArmedTimers(s, now)
    /\ UNCHANGED <<now, open_house_events, waitlist_entries, nextId, waitlist,
                   scheduledEvents, activeEvents, scanner, last, channel>>

\* the call of q is still awaiting its race
Racing(q) == proc[q.by].pc = "race" /\ proc[q.by].n = q.t

\* the store answers the select q with StoreAnswers[k]; a race that is
\* already settled ignores it
selectAnswers(q, k) ==
    /\ q \in inflight
    /\ q.kind = "select"
    /\ inflight' = inflight \ {q}
    /\ IF Racing(q)
       THEN /\ proc' = [proc EXCEPT ![q.by] = Idle]
            /\ DoneActive(q.by, ActiveResult(StoreAnswers[k],
                                             ActiveOf(open_house_events)), k)
       ELSE UNCHANGED <<proc, last>>
    /\ UNCHANGED <<now, open_house_events, waitlist_entries, nextId, waitlist,
                   scheduledEvents, activeEvents, scanner, channel>>

\* the timer q runs; a race that is already settled ignores the rejection
timerFires(q) ==
    /\ q \in inflight
    /\ TimerDue(q)
    /\ inflight' = inflight \ {q}
    /\ IF Racing(q)
       THEN /\ proc' = [proc EXCEPT ![q.by] = Idle]
            /\ DoneActive(q.by, ActiveResult(TimeoutError, {}), 0)
       ELSE UNCHANGED <<proc, last>>
    /\ UNCHANGED <<now, open_house_events, waitlist_entries, nextId, waitlist,
                   scheduledEvents, activeEvents, scanner, channel>>

\* AgentHomeScreen.loadAllEvents -> getEventsByAgent ->
\* checkAndTransitionAllAgentEvents, first round trip: getAgentEvents, then
\* read the clock once and walk the list
loadAllEvents(s) ==
    /\ proc[s].pc = "idle"
    /\ LET todo == PendingTransitions(open_house_events,
                                      getAgentEvents(open_house_events), now)
       IN  proc' = [proc EXCEPT ![s] =
                      [Idle EXCEPT !.pc = IF Len(todo) = 0 THEN "select" ELSE "transition",
                                   !.todo = todo]]
    /\ UNCHANGED <<now, open_house_events, waitlist_entries, nextId, waitlist,
                   last,
                 scheduledEvents, activeEvents, inflight, scanner, channel>>

\* one iteration of the loop that has a transition to make: await
\* updateEventStatus(event.id, status); an error ends the whole call and
\* loadAllEvents clears both lists
transitionEvent(s) ==
    /\ proc[s].pc = "transition"
    /\ LET t == Head(proc[s].todo)
       IN  IF open_house_events[t.e].live
           THEN /\ open_house_events' = [open_house_events EXCEPT ![t.e].status = t.status]
                /\ proc' = [proc EXCEPT ![s].todo = Tail(@),
                                        ![s].pc = IF Len(proc[s].todo) = 1
                                                  THEN "select" ELSE "transition"]
                /\ UNCHANGED <<last, scheduledEvents, activeEvents>>
           ELSE /\ UNCHANGED open_house_events
                /\ proc' = [proc EXCEPT ![s] = Idle]
                /\ scheduledEvents' = {}
                /\ activeEvents' = {}
                /\ Done("getEventsByAgent", "PGRST116")
    /\ UNCHANGED <<now, waitlist_entries, nextId, waitlist, inflight, scanner,
                   channel>>

\* last round trip: select the scheduled and active events, read the clock,
\* partition; loadAllEvents stores the two lists
getEventsByAgent(s) ==
    /\ proc[s].pc = "select"
    /\ scheduledEvents' = ScheduledOf(open_house_events, now)
    /\ activeEvents' = ActiveOf(open_house_events)
    /\ Done("getEventsByAgent", "ok")
    /\ proc' = [proc EXCEPT ![s] = Idle]
    /\ UNCHANGED <<now, open_house_events, waitlist_entries, nextId, waitlist,
                   inflight, scanner, channel>>

\* ------------------------------ legacy waitlistService (src/services)
\* joinWaitlist without event validation: read the max position
legacyJoinWaitlist(s, e) ==
    /\ proc[s].pc = "idle"
    /\ CanStartJoin
    /\ proc' = [proc EXCEPT ![s] = [Idle EXCEPT !.pc = "join_insert", !.e = e,
                                     !.n = NextPosition(waitlist_entries, e)]]
    /\ UNCHANGED <<now, open_house_events, waitlist_entries, nextId, waitlist,
                   last,
                 scheduledEvents, activeEvents, inflight, scanner, channel>>

\* reorderEntry, first round trip: fetch the entry's event_id and position.
\* supabase.sql`position + 1` is read as the SQL expression it spells; a client
\* library without a sql tag makes the call throw before its first update.
legacyReorderEntry(s, id, new) ==
    /\ proc[s].pc = "idle"
    /\ IF id \notin LiveIds(waitlist_entries)
       THEN /\ Done("legacyReorderEntry", "PGRST116")
            /\ UNCHANGED proc
       ELSE IF waitlist_entries[id].position = new
       THEN /\ Done("legacyReorderEntry", "ok")
            /\ UNCHANGED proc
       ELSE \/ /\ proc' = [proc EXCEPT ![s] =
                            [Idle EXCEPT !.pc = "reorder_shift",
                                          !.e = waitlist_entries[id].event_id,
                                          !.n = new, !.id = id,
                                          !.old = waitlist_entries[id].position]]
               /\ UNCHANGED last
            \/ /\ Done("legacyReorderEntry", "TypeError")
               /\ UNCHANGED proc
    /\ UNCHANGED <<now, open_house_events, waitlist_entries, nextId, waitlist,
                   scheduledEvents, activeEvents, inflight, scanner, channel>>

\* second round trip: shift the entries between the two positions; the
\* statement's error, if any, is not looked at
legacyReorderShift(s) ==
    /\ proc[s].pc = "reorder_shift"
    /\ \E scan \in Perms(ShiftedRows(waitlist_entries, proc[s].e, proc[s].old, proc[s].n)) :
         LET sh == ShiftPositions(waitlist_entries, scan,
                                  IF proc[s].n < proc[s].old THEN 1 ELSE -1)
         IN  waitlist_entries' = IF sh.ok THEN sh.tbl ELSE waitlist_entries
    /\ proc' = [proc EXCEPT ![s].pc = "reorder_target"]
    /\ UNCHANGED <<now, open_house_events, nextId, waitlist, last,
                 scheduledEvents, activeEvents, inflight, scanner, channel>>

\* third round trip: write the target entry's position; error not looked at
legacyReorderTarget(s) ==
    /\ proc[s].pc = "reorder_target"
    /\ LET id == proc[s].id
       IN  waitlist_entries' =
             IF /\ id \in LiveIds(waitlist_entries)
                /\ ~UniqueViolation(waitlist_entries, id,
                                    waitlist_entries[id].event_id, proc[s].n)
             THEN [waitlist_entries EXCEPT ![id].position = proc[s].n]
             ELSE waitlist_entries
    /\ Done("legacyReorderEntry", "ok")
    /\ proc' = [proc EXCEPT ![s] = Idle]
    /\ UNCHANGED <<now, open_house_events, nextId, waitlist, scheduledEvents,
                   activeEvents, inflight, scanner, channel>>

\* ------------------------------------------------------- specifications
\* the new positions an agent asks for, one below and one above the valid range
Targets == 0..(MaxEntries + 1)

\* the status an agent's call gives an entry in the ledger specifications
\* (what the ledger looks at is whether an entry is still waiting)
LedgerStatus == {"touring"}

\* the position ledger: current waitlistService and the store
Next ==
    \/ \E s \in Sessions, e \in EventIds \cup {UnknownId} : joinWaitlist(s, e)
    \/ \E s \in Sessions : joinReadMax(s)
    \/ \E s \in Sessions : joinInsert(s)
    \/ \E s \in Agents, id \in EntryIds, st \in LedgerStatus : updateEntryStatus(s, id, st)
    \/ \E s \in Agents, id \in EntryIds, new \in Targets : reorderEntry(s, id, new)
    \/ \E id \in EntryIds : DeleteEntry(id)

Spec == Init /\ [][Next]_vars

\* the position ledger with the repair function run by hand
NextRepair ==
    \/ Next
    \/ \E e \in EventIds : repair_waitlist_positions(e)

SpecRepair == Init /\ [][NextRepair]_vars

\* the agent's dashboard driving the entry state machine
NextDashboard ==
    \/ Tick
    \/ \E s \in Sessions, e \in EventIds \cup {UnknownId} : joinWaitlist(s, e)
    \/ \E s \in Sessions : joinReadMax(s)
    \/ \E s \in Sessions : joinInsert(s)
    \/ \E s \in Agents : loadWaitlist(s)
    \/ \E s \in Agents : handleCallNext(s)
    \/ \E s \in Agents, k \in EntryIds : handleComplete(s, k)

SpecDashboard == Init /\ [][NextDashboard]_vars

\* two agent sessions with the dashboard of the same event open
NextAgents ==
    \/ Tick
    \/ \E s \in Sessions \ Agents : joinWaitlist(s, eventId[s])
    \/ \E s \in Sessions : joinReadMax(s)
    \/ \E s \in Sessions : joinInsert(s)
    \/ \E s \in Sessions : loadWaitlist(s)
    \/ \E s \in Sessions : handleCallNext(s)
    \/ \E s \in Sessions, k \in EntryIds : handleComplete(s, k)

SpecAgents == Init /\ [][NextAgents]_vars

\* joins against the event lifecycle
NextEvents ==
    \/ Tick
    \/ \E s \in Sessions, e \in EventIds \cup {UnknownId} : joinWaitlist(s, e)
    \/ \E s \in Sessions : joinReadMax(s)
    \/ \E s \in Sessions : joinInsert(s)
    \/ \E e \in EventIds : deleteEvent(e)
    \/ \E s \in Sessions, e \in EventIds : checkAndTransitionEventStatus(s, e)
    \/ \E s \in Sessions : updateEventStatus(s)
    \/ \E s \in Agents, e \in EventIds \cup {UnknownId} : getEvent(s, e)
    \/ \E s \in Agents : loadAllEvents(s)
    \/ \E s \in Agents : transitionEvent(s)
    \/ \E s \in Agents : getEventsByAgent(s)

SpecEvents == Init /\ [][NextEvents]_vars

\* the legacy waitlistService against the same store
NextLegacy ==
    \/ \E s \in Sessions \ Agents, e \in EventIds \cup {UnknownId} : legacyJoinWaitlist(s, e)
    \/ \E s \in Sessions : joinInsert(s)
    \/ \E s \in Agents, id \in EntryIds, new \in Targets : legacyReorderEntry(s, id, new)
    \/ \E s \in Agents : legacyReorderShift(s)
    \/ \E s \in Agents : legacyReorderTarget(s)
    \/ \E id \in EntryIds : DeleteEntry(id)

SpecLegacy == Init /\ [][NextLegacy]_vars

\* interest flags: a tenant and a guest in the queue of the first event, the
\* agent moving entries through the statuses
InterestStatus == {"touring", "completed"}

\* the queue of the first event after the tenant and the guest have joined
InitInterest ==
    /\ now = 1
    /\ open_house_events =
        [e \in EventIds |->
            [live |-> TRUE,
             status |-> IF e <= now THEN "active" ELSE "scheduled",
             start_time |-> e, end_time |-> e + 1,
             qr_code |-> qrData(IdText(e))]]
    /\ waitlist_entries =
        InsertEntry(InsertEntry([i \in EntryIds |-> NoEntry], 1, 1, user["s2"], 1).tbl,
                    2, 1, user["s3"], 2).tbl
    /\ nextId = 3
    /\ proc = [s \in Devices |-> Idle]
    /\ waitlist = [s \in Sessions |-> <<>>]
    /\ scheduledEvents = {}
    /\ activeEvents = {}
    /\ inflight = {}
    /\ scanner = NoScan
    /\ channel = [s \in Sessions |-> 0]
    /\ last = [op |-> "none", res |-> "", id |-> 0, n |-> 0, by |-> ""]

NextInterest ==
    \/ \E s \in Agents, id \in EntryIds, st \in InterestStatus :
            updateEntryStatus(s, id, st)
    \/ \E s \in Devices, id \in EntryIds : expressInterest(s, id)
    \/ \E s \in Devices, id \in EntryIds, b \in BOOLEAN : toggleInterest(s, id, b)
    \/ \E s \in Devices : toggleDirect(s)

SpecInterest == InitInterest /\ [][NextInterest]_vars

\* getActiveEvent racing its timer while events are deleted
Requests == [kind : {"select", "timer"}, by : Agents, t : 1..MaxTime]

NextActive ==
    \/ Tick
    \/ \E e \in EventIds : deleteEvent(e)
    \/ \E s \in Agents : getActiveEvent(s)
    \/ \E q \in Requests, k \in DOMAIN StoreAnswers : selectAnswers(q, k)
    \/ \E q \in Requests : timerFires(q)

SpecActive == Init /\ [][NextActive]_vars

\* agents creating and editing events, starting from an empty table
InitCreate ==
    /\ now = 1
    /\ open_house_events = [e \in EventIds |-> NoEvent]
    /\ waitlist_entries = [i \in EntryIds |-> NoEntry]
    /\ nextId = 1
    /\ proc = [s \in Devices |-> Idle]
    /\ waitlist = [s \in Sessions |-> <<>>]
    /\ scheduledEvents = {}
    /\ activeEvents = {}
    /\ inflight = {}
    /\ scanner = NoScan
    /\ channel = [s \in Sessions |-> 0]
    /\ last = [op |-> "none", res |-> "", id |-> 0, n |-> 0, by |-> ""]

\* the edits of updateEvent: a new end time
Updates == {[end_time |-> t] : t \in 2..(MaxTime + 1)}

NextCreate ==
    \/ Tick
    \/ \E s \in Sessions, t \in 1..MaxTime, ok \in BOOLEAN : createEvent(s, t, ok)
    \/ \E s \in Sessions, ok \in BOOLEAN : createEventUpdate(s, ok)
    \/ \E s \in Sessions, e \in EventIds, u \in Updates : updateEvent(s, e, u)

SpecCreate == InitCreate /\ [][NextCreate]_vars

\* the join token of an event with any id, shown and scanned
InitScan ==
    /\ now = 1
    /\ open_house_events = [e \in EventIds |-> NoEvent]
    /\ waitlist_entries = [i \in EntryIds |-> NoEntry]
    /\ nextId = 1
    /\ proc = [s \in Devices |-> Idle]
    /\ waitlist = [s \in Sessions |-> <<>>]
    /\ scheduledEvents = {}
    /\ activeEvents = {}
    /\ inflight = {}
    /\ \E id \in IdTexts : scanner = [NoScan EXCEPT !.id = id]
    /\ channel = [s \in Sessions |-> 0]
    /\ last = [op |-> "none", res |-> "", id |-> 0, n |-> 0, by |-> ""]

NextScan ==
    \/ showCode
    \/ showForeignCode
    \/ handleBarCodeScanned
    \/ scanAgain

SpecScan == InitScan /\ [][NextScan]_vars

\* the dashboard of the agent re-fetching on every change while a tenant and
\* a guest join the queue of the event
Fetches == {q \in inflight : q.kind = "getWaitlist"}

NextRefetch ==
    \/ \E s \in Devices \ Agents : joinWaitlist(s, 1)
    \/ \E s \in Devices \ Agents : joinReadMax(s)
    \/ \E s \in Devices \ Agents : joinInsert(s)
    \/ \E s \in Agents : notifyChange(s)
    \/ \E q \in Fetches : serveWaitlist(q)
    \/ \E q \in Fetches : deliverWaitlist(q)

SpecRefetch == Init /\ [][NextRefetch]_vars

\* ------------------------------------------------------------ properties
\* the positions of event e are exactly 1..N, N its number of entries
Sequential(tbl, e) == Positions(tbl, e) = 1..Cardinality(EventRows(tbl, e))

\* the table after entry id has been moved to position new as an ordered-list
\* move: the entries between the old and the new position give way by one
MoveResult(tbl, id, new) ==
    LET old == tbl[id].position
        between == ShiftedRows(tbl, tbl[id].event_id, old, new)
    IN  [i \in EntryIds |->
            IF i = id THEN [tbl[i] EXCEPT !.position = new]
            ELSE IF i \in between
            THEN [tbl[i] EXCEPT !.position = IF new < old THEN @ + 1 ELSE @ - 1]
            ELSE tbl[i]]

\* a step that rewrites positions of the rows without adding or removing a row
PositionsRewritten ==
    /\ LiveIds(waitlist_entries') = LiveIds(waitlist_entries)
    /\ \E i \in LiveIds(waitlist_entries) :
         waitlist_entries'[i].position # waitlist_entries[i].position

\* C1: in every settled state the positions of all entries of an event,
\* whatever their status, are exactly 1..N (no gap, no duplicate).
C1_AllPositionsSequential ==
    \A e \in EventIds : Sequential(waitlist_entries, e)

\* C2: no two entries of one event are ever stored with the same position,
\* whatever the interleaving of concurrent joins.
C2_NoDuplicatePositions ==
    \A i, j \in LiveIds(waitlist_entries) :
        (i # j /\ waitlist_entries[i].event_id = waitlist_entries[j].event_id)
            => waitlist_entries[i].position # waitlist_entries[j].position

\* a join that raced another one was refused by the unique index
C2_Witness ==
    /\ last.op = "joinWaitlist" /\ last.res = "unique_violation"
    /\ \E i \in LiveIds(waitlist_entries) : waitlist_entries[i].position = 1

\* C3: a join's read of the maximum and its insert are one atomic step: when
\* the insert takes effect the position it carries is the true current
\* maximum + 1, and the join succeeds.
C3_AppendLinearizable ==
    [][\A s \in Sessions :
          (proc[s].pc = "join_insert" /\ proc'[s].pc = "idle")
              => /\ proc[s].n = NextPosition(waitlist_entries, proc[s].e)
                 /\ last'.res = "joined"]_vars

\* C4: joinWaitlist creates an entry only if at the call the event exists, is
\* active and now is within [start_time, end_time]; when they hold the join
\* succeeds with an entry in status waiting; otherwise it fails and creates
\* nothing.
C4_JoinGating ==
    [][/\ \A s \in Sessions :
            /\ (proc[s].pc = "idle" /\ proc'[s].pc = "join_max")
                  => \E e \in EventIds :
                        /\ proc'[s].e = e
                        /\ open_house_events[e].live
                        /\ open_house_events[e].status = "active"
                        /\ open_house_events[e].start_time <= now
                        /\ now <= open_house_events[e].end_time
            /\ (proc[s].pc = "join_insert" /\ proc'[s].pc = "idle")
                  => /\ last'.res = "joined"
                     /\ waitlist_entries'[nextId].live
                     /\ waitlist_entries'[nextId].status = "waiting"
       /\ (LiveIds(waitlist_entries') \ LiveIds(waitlist_entries) # {})
             => \E s \in Sessions : proc[s].pc = "join_insert" /\ proc'[s].pc = "idle"
       /\ (last'.op = "joinWaitlist" /\ last'.res # "joined")
             => LiveIds(waitlist_entries') \subseteq LiveIds(waitlist_entries)]_vars

\* C5: Reorder(entry, newPosition) with 1 <= newPosition <= N moves the entry
\* to newPosition and shifts exactly the entries between the old and the new
\* position by one slot the other way, leaving all others where they were.
C5_ReorderMoves ==
    [][(/\ last'.op = "reorderEntry"
        /\ (last' # last \/ waitlist_entries' # waitlist_entries)
        /\ last'.id \in LiveIds(waitlist_entries)
        /\ last'.n \in 1..Cardinality(EventRows(waitlist_entries,
                                                waitlist_entries[last'.id].event_id)))
          => waitlist_entries' = MoveResult(waitlist_entries, last'.id, last'.n)]_vars

AllowedEdges ==
    {<<"waiting", "touring">>, <<"touring", "completed">>,
     <<"waiting", "skipped">>, <<"waiting", "no-show">>}

\* a step in which a dashboard handler's updateEntryStatus call completed
HandlerStep(op) ==
    /\ last'.op = op
    /\ (last' # last \/ waitlist_entries' # waitlist_entries)

\* C8: every status change follows an edge of the entry state machine, and a
\* request for any other change (here: to the status the entry already has,
\* or on an entry that moved on since the list was loaded) fails: a status
\* request that succeeds has taken some entry along an allowed edge.
C8_OnlyAllowedEdges ==
    [][/\ \A i \in LiveIds(waitlist_entries) \cap LiveIds(waitlist_entries') :
            \/ waitlist_entries'[i].status = waitlist_entries[i].status
            \/ <<waitlist_entries[i].status, waitlist_entries'[i].status>> \in AllowedEdges
       /\ ((HandlerStep("handleCallNext") \/ HandlerStep("handleComplete")) /\ last'.res = "ok")
            => \E i \in LiveIds(waitlist_entries) :
                  <<waitlist_entries[i].status, waitlist_entries'[i].status>> \in AllowedEdges]_vars

\* C9: started_tour_at and completed_at are written at most once per entry
\* and never cleared: once set, a timestamp keeps its value.
C9_TimestampsWrittenOnce ==
    [][\A i \in LiveIds(waitlist_entries) \cap LiveIds(waitlist_entries') :
          /\ waitlist_entries[i].started_tour_at # NULL
                => waitlist_entries'[i].started_tour_at = waitlist_entries[i].started_tour_at
          /\ waitlist_entries[i].completed_at # NULL
                => waitlist_entries'[i].completed_at = waitlist_entries[i].completed_at]_vars

\* the event's waiting entries in the store
Waiting(tbl, e) == {i \in EventRows(tbl, e) : tbl[i].status = "waiting"}

\* C10: CallNext moves to touring exactly the entry that has, at the time of
\* the call, the lowest position among the event's waiting entries; when none
\* is waiting it reports QueueEmpty and changes nothing.
C10_CallNextLowestWaiting ==
    [][\A s \in Agents :
          HandlerStep("handleCallNext")
             => LET W == Waiting(waitlist_entries, eventId[s])
                IN  IF W = {}
                    THEN last'.res = "QueueEmpty" /\ waitlist_entries' = waitlist_entries
                    ELSE LET m == CHOOSE i \in W : \A j \in W :
                                     waitlist_entries[i].position <= waitlist_entries[j].position
                         IN  /\ last'.res = "ok"
                             /\ waitlist_entries'[m].status = "touring"
                             /\ \A i \in EntryIds \ {m} :
                                   waitlist_entries'[i] = waitlist_entries[i]]_vars

\* the order of the entry states along a visit
Rank(status) ==
    IF status = "waiting" THEN 0 ELSE IF status = "touring" THEN 1 ELSE 2

\* the status requests the dashboard sends
Handlers == {"handleCallNext", "handleComplete"}

\* C11: status changes issued by two agent sessions on the same entry are
\* serialized.  When a session's request on an entry follows a successful
\* request of the other session on the same entry, the status of the entry
\* does not move backward, started_tour_at is not overwritten, and the
\* request succeeds only if it takes the entry along an edge of the entry
\* state machine (otherwise it is the losing request and must fail).
C11_ConcurrentStatusChangesSerialized ==
    [][(/\ last.op \in Handlers /\ last.res = "ok"
        /\ HandlerStep("handleCallNext") \/ HandlerStep("handleComplete")
        /\ last'.by # last.by /\ last'.id = last.id
        /\ last.id \in LiveIds(waitlist_entries))
          => LET old == waitlist_entries[last.id]
                 new == waitlist_entries'[last.id]
             IN  /\ Rank(new.status) >= Rank(old.status)
                 /\ old.started_tour_at # NULL
                       => new.started_tour_at = old.started_tour_at
                 /\ last'.res = "ok"
                       => <<old.status, new.status>> \in AllowedEdges]_vars

\* the status the clock gives an event: scheduled before start_time, active
\* from start_time, completed from end_time
ConsistentStatus(status, ev, t) ==
    /\ status = "scheduled" => t < ev.start_time
    /\ status = "active" => (ev.start_time <= t /\ t < ev.end_time)
    /\ t >= ev.end_time => status = "completed"

\* a step in which session s gets the result of getEventsByAgent
ListRead(s) == proc[s].pc = "select" /\ proc'[s].pc = "idle"

\* C12: every single-event read and every agent event list returns statuses
\* consistent with the clock at the read: scheduled only if now < start_time,
\* active only if start_time <= now < end_time, completed once
\* now >= end_time.
C12_ReadsConsistentWithClock ==
    [][/\ (last'.op = "getEvent" /\ last' # last /\ last'.res # "null")
            => ConsistentStatus(last'.res, open_house_events[last'.id], now)
       /\ \A s \in Agents : ListRead(s)
            => /\ \A e \in activeEvents' :
                    ConsistentStatus("active", open_house_events[e], now)
               /\ \A e \in scheduledEvents' :
                    ConsistentStatus("scheduled", open_house_events[e], now)]_vars

\* the step in which joinWaitlist of session s validates event e
JoinValidates(s, e) ==
    /\ proc[s].pc = "idle"
    /\ \/ proc'[s].pc = "join_max" /\ proc'[s].e = e
       \/ last'.op = "joinWaitlist" /\ last'.id = e /\ last' # last

\* C13: a join evaluates the time-driven transition of the event before it
\* validates it: a join at start_time <= now <= end_time on an event still
\* stored as scheduled is accepted.
C13_JoinRunsLazyTransition ==
    [][\A s \in Sessions, e \in EventIds :
          (/\ JoinValidates(s, e)
           /\ open_house_events[e].live
           /\ open_house_events[e].status = "scheduled"
           /\ open_house_events[e].start_time <= now
           /\ now <= open_house_events[e].end_time)
             => proc'[s].pc = "join_max"]_vars

\* C14: a join against an event whose status is scheduled fails with the
\* event-not-started reason and a join against an event whose status is
\* completed fails with the event-ended reason, neither with the generic
\* event-not-active reason.
C14_DistinctJoinFailures ==
    [][\A s \in Sessions, e \in EventIds :
          (JoinValidates(s, e) /\ open_house_events[e].live)
             => /\ open_house_events[e].status = "scheduled"
                     => (last'.op = "joinWaitlist" /\ last'.res = "EventNotStarted")
                /\ open_house_events[e].status = "completed"
                     => (last'.op = "joinWaitlist" /\ last'.res = "EventEnded")]_vars

\* the order of the event states
EventRank(status) ==
    IF status = "scheduled" THEN 0 ELSE IF status = "active" THEN 1 ELSE 2

\* C15: no event operation moves the stored status of an event backward:
\* not from active to scheduled, not from completed to active or scheduled.
C15_EventStatusNeverBackward ==
    [][\A e \in EventIds :
          (open_house_events[e].live /\ open_house_events'[e].live)
             => EventRank(open_house_events'[e].status)
                   >= EventRank(open_house_events[e].status)]_vars

\* C16: the result of getEventsByAgent is a status-consistent snapshot for
\* the time of the read: every event in the active list has
\* start_time <= now < end_time and every event in the scheduled list has
\* now < start_time.
C16_ByAgentSnapshotConsistent ==
    [][\A s \in Agents : ListRead(s)
          => /\ \A e \in activeEvents' :
                  /\ open_house_events[e].start_time <= now
                  /\ now < open_house_events[e].end_time
             /\ \A e \in scheduledEvents' : now < open_house_events[e].start_time]_vars

C18_AppendIsMaxPlusOne ==
    [][\A i \in LiveIds(waitlist_entries') \ LiveIds(waitlist_entries) :
          LET e == waitlist_entries'[i].event_id
              existing == Positions(waitlist_entries, e)
          IN  /\ \A p \in existing : p < waitlist_entries'[i].position
              /\ waitlist_entries'[i].position - 1 \in existing \cup {0}
              /\ existing = {} => waitlist_entries'[i].position = 1]_vars

\* C19: a reorder of an entry to the position it already has changes no
\* position of any entry and signals no error.
C19_ReorderToSamePositionIsNoOp ==
    [][(/\ last'.op = "reorderEntry"
        /\ (last' # last \/ waitlist_entries' # waitlist_entries)
        /\ last'.id \in LiveIds(waitlist_entries)
        /\ waitlist_entries[last'.id].position = last'.n)
          => /\ last'.res = "ok"
             /\ waitlist_entries' = waitlist_entries]_vars

\* the only entry ever created sits where its join put it, and a reorder of
\* it to that position has returned without error
C19_Witness ==
    /\ nextId = 2 /\ waitlist_entries[1].live
    /\ last.op = "reorderEntry" /\ last.res = "ok"
    /\ last.id = 1 /\ last.n = waitlist_entries[1].position

\* C20: through ordinary use of joinWaitlist the same identity never has two
\* entries in the same event.
C20_NoDoubleJoin ==
    \A i, j \in LiveIds(waitlist_entries) :
        (/\ i # j
         /\ waitlist_entries[i].event_id = waitlist_entries[j].event_id)
            => \/ waitlist_entries[i].user_id # waitlist_entries[j].user_id
               \/ waitlist_entries[i].guest_name # waitlist_entries[j].guest_name

\* C30: every event stored as scheduled or active when getEventsByAgent
\* fetches the list is in exactly one of the two lists it returns.
C30_ByAgentPartition ==
    [][\A s \in Agents : ListRead(s)
          => \A e \in EventIds :
                (/\ open_house_events[e].live
                 /\ open_house_events[e].status \in {"scheduled", "active"})
                   => /\ e \in scheduledEvents' \cup activeEvents'
                      /\ e \notin scheduledEvents' \cap activeEvents']_vars

C24_PositionNotReused ==
    [][(/\ last.op = "DeleteEntry" /\ last.res = "ok"
        /\ \A i \in Waiting(waitlist_entries, last.id) :
              waitlist_entries[i].position < last.n)
          => \A i \in LiveIds(waitlist_entries') \ LiveIds(waitlist_entries) :
                waitlist_entries'[i].event_id = last.id
                   => waitlist_entries'[i].position # last.n]_vars

\* C23: repair_waitlist_positions(event) gives the entries of the event the
\* positions 1..N in their prior order, whatever gaps there were, and run on
\* a list that is already 1..N it changes no position.
C23_RepairRenumbers ==
    [][\A e \in EventIds :
          (/\ last'.op = "repair_waitlist_positions" /\ last'.id = e
           /\ (last' # last \/ waitlist_entries' # waitlist_entries))
             => LET ord == OrderByPosition(waitlist_entries,
                                           EventRows(waitlist_entries, e))
                IN  /\ last'.res = "ok"
                    /\ \A k \in 1..Len(ord) : waitlist_entries'[ord[k]].position = k
                    /\ Sequential(waitlist_entries, e)
                          => waitlist_entries' = waitlist_entries]_vars

InterestOps == {"expressInterest", "toggleInterest"}

\* a row of r2 that differs from the row of r1 in expressed_interest at most
SameButInterest(r1, r2) ==
    r2 = [r1 EXCEPT !.expressed_interest = r2.expressed_interest]

C26_PathMatchesIdentityKind ==
    [][\A s \in Devices :
          (/\ proc[s].pc = "idle"
           /\ proc'[s].pc = "toggleDirect"
           /\ waitlist_entries[proc'[s].id].live)
              => waitlist_entries[proc'[s].id].user_id = ""
      ]_vars

C28_EveryEventHasItsToken ==
    (\A s \in Sessions : proc[s].pc # "create_update")
        => \A e \in EventIds :
              open_house_events[e].live
                  => open_house_events[e].qr_code = qrData(IdText(e))

\* C21: for every event id, the scanner's parsing rule applied to the join
\* token generated for that id yields exactly that id: once the code of an
\* event has been scanned, the event id handed to joinWaitlist is the id the
\* token was made from.
C21_TokenRoundTrip ==
    (scanner.scanned /\ scanner.data = qrData(scanner.id))
        => scanner.eventId = scanner.id

\* a token of an id of several characters, a dash among them, was scanned
C21_Witness ==
    /\ scanner.scanned
    /\ last.op = "handleBarCodeScanned"
    /\ last.res = "join"
    /\ scanner.data = qrData(scanner.id)
    /\ Len(scanner.id) = MaxIdLen
    /\ scanner.id[2] = "-"
    /\ scanner.eventId = scanner.id

\* C29: once every change of the queue has been notified and every re-fetch
\* it caused has completed, the waitlist the dashboard holds is the store's
\* current waitlist of the event; a response of an older fetch does not
\* overwrite the result of a newer one.
C29_DashboardCatchesUp ==
    \A s \in Agents :
        (Fetches = {} /\ channel[s] = Changes)
            => waitlist[s] = ActiveQueue(getWaitlist(waitlist_entries, eventId[s]))

====
